---- MODULE Spec2Model ----
(***************************************************************************)
(* Model of relatorio_milvus_headless.py: the daily Milvus attendance      *)
(* report (fetch -> clean -> aggregate -> CSV -> e-mail -> WhatsApp alerts  *)
(* -> monthly workbook), with the finalization block of main.              *)
(*                                                                         *)
(* Text is modelled as sequences of one-character strings, so that the     *)
(* HH:MM formatter and the three parsers of the program (strptime,         *)
(* str.split + int, pd.to_timedelta) are computed character by character.  *)
(* A staff-member name is the sequence of its space-separated words.       *)
(***************************************************************************)
EXTENDS Integers, Sequences, FiniteSets, TLC

VARIABLES
    pc,            \* position of main (or of the codec driver)
    today,         \* day number of datetime.now()
    data_ref,      \* day number of the reference date
    http,          \* solicitar_dados_api: request parameters, transmissions, last outcome
    csv_raw,       \* body returned by solicitar_dados_api
    df_original,   \* cleaned table (processar_csv)
    df_para_csv,   \* annotated table (inserir_totais_por_tecnico)
    resumo,        \* summary table (calcular_soma_por_tecnico)
    corpo_email,   \* rendered body (gerar_corpo_email)
    csv_path,      \* path written by salvar_csv
    email,         \* "none" | "sent"  (enviar_email_com_anexo)
    alerta,        \* WhatsApp loop: index, rows evaluated, sends attempted
    planilha,      \* monthly workbook: file on disk, sheet in memory, maps, writes
    fin,           \* finalization block of main
    erro,          \* exception caught by main: its type and the function that raised it
    codec          \* driver of the time codec: n, text, parsed

vars == <<pc, today, data_ref, http, csv_raw, df_original, df_para_csv, resumo, corpo_email,
          csv_path, email, alerta, planilha, fin, erro, codec>>

-----------------------------------------------------------------------------
(* Bounds of the model *)

\* rows of the CSV body returned by the API
MaxRows == 2
\* largest minute count driven through the codec (above 99:59, so that the
\* hours take three digits)
MaxMinutes == 6100
\* run dates of the year-long specification: day 1 is Monday 2023-12-25,
\* day 8 is 2024-01-01, day 374 is 2025-01-01
FirstRunDay == 8
LastRunDay == 376
\* run dates of the table-centred specification (Monday 2024-01-15 and the Tuesday after it)
FirstMainDay == 22
LastMainDay == 23

-----------------------------------------------------------------------------
(* Text *)

Digits == <<"0", "1", "2", "3", "4", "5", "6", "7", "8", "9">>

IsDigit(c) == \E d \in 1..10 : Digits[d] = c

DigitVal(c) == (CHOOSE d \in 1..10 : Digits[d] = c) - 1

\* the number of decimal digits of a non-negative integer
NumDigits(n) == CHOOSE d \in 1..12 : n < 10^d /\ (d = 1 \/ 10^(d - 1) <= n)

\* decimal digits of a non-negative integer, as format(n, "d") prints them
IntToStr(n) ==
    [i \in 1..NumDigits(n) |-> Digits[((n \div 10^(NumDigits(n) - i)) % 10) + 1]]

\* f"{n:02d}": zero-padded to a width of at least two
Pad2(n) == IF n < 10 THEN <<"0">> \o IntToStr(n) ELSE IntToStr(n)

RECURSIVE StrToIntFirst(_, _)
\* the number the first n digits of s stand for
StrToIntFirst(s, n) ==
    IF n = 0 THEN 0 ELSE 10 * StrToIntFirst(s, n - 1) + DigitVal(s[n])

\* int(s) of a string of decimal digits
StrToInt(s) == StrToIntFirst(s, Len(s))

AllDigits(s) == Len(s) > 0 /\ \A i \in 1..Len(s) : IsDigit(s[i])

\* position of the first ":" of s at or after position i (Len(s) + 1 when none)
FindColon(s, i) ==
    LET at == {k \in i..Len(s) : s[k] = ":"}
    IN  IF at = {} THEN Len(s) + 1 ELSE CHOOSE k \in at : \A j \in at : k <= j

\* position of the j-th ":" of s (0 for j = 0, Len(s) + 1 when there is none)
ColonAt(s, j) ==
    LET at == {k \in 1..Len(s) : s[k] = ":"}
    IN  IF j = 0 THEN 0
        ELSE IF j > Cardinality(at) THEN Len(s) + 1
        ELSE CHOOSE k \in at : Cardinality({c \in at : c < k}) = j - 1

\* str.split(":"): the texts between consecutive colons
Split(s) ==
    [j \in 1..(Cardinality({k \in 1..Len(s) : s[k] = ":"}) + 1) |->
        SubSeq(s, ColonAt(s, j - 1) + 1, ColonAt(s, j) - 1)]

-----------------------------------------------------------------------------
(* Time codec *)

\* str.strip() for the blank character
RECURSIVE Strip(_)
Strip(s) ==
    IF Len(s) > 0 /\ s[1] = " " THEN Strip(Tail(s))
    ELSE IF Len(s) > 0 /\ s[Len(s)] = " " THEN Strip(SubSeq(s, 1, Len(s) - 1))
    ELSE s

\* %H of strptime at the head of s: 2[0-3] | [0-1]\d | \d, the lengths it can
\* take, longest first
HourLens(s) ==
    (IF Len(s) >= 2 /\ IsDigit(s[1]) /\ IsDigit(s[2])
        /\ (\/ s[1] = "2" /\ DigitVal(s[2]) <= 3
            \/ s[1] \in {"0", "1"})
     THEN <<2>> ELSE <<>>)
    \o (IF Len(s) >= 1 /\ IsDigit(s[1]) THEN <<1>> ELSE <<>>)

\* %M of strptime at position p of s: [0-5]\d | \d, the length it takes (0: none)
MinuteLen(s, p) ==
    IF p + 1 <= Len(s) /\ IsDigit(s[p]) /\ DigitVal(s[p]) <= 5 /\ IsDigit(s[p + 1])
    THEN 2
    ELSE IF p <= Len(s) /\ IsDigit(s[p]) THEN 1
    ELSE 0

\* whether the pattern %H:%M matches at the head of s with an hour of length h
MatchesWithHour(s, h) ==
    /\ h + 1 <= Len(s)
    /\ s[h + 1] = ":"
    /\ MinuteLen(s, h + 2) > 0

\* datetime.strptime(s, "%H:%M"): the first hour length that lets the pattern
\* match is taken; text left after the match is an error
Strptime_HM(s) ==
    LET hs == SelectSeq(HourLens(s), LAMBDA h : MatchesWithHour(s, h))
    IN  IF Len(hs) = 0 THEN [ok |-> FALSE, hour |-> 0, minute |-> 0]
        ELSE LET h == hs[1]
                 m == MinuteLen(s, h + 2)
             IN  IF h + 1 + m # Len(s)
                 THEN [ok |-> FALSE, hour |-> 0, minute |-> 0]
                 ELSE [ok |-> TRUE,
                       hour |-> StrToInt(SubSeq(s, 1, h)),
                       minute |-> StrToInt(SubSeq(s, h + 2, h + 1 + m))]

\* hhmm_to_total_minutes: ok = FALSE stands for the re-raised ValueError
hhmm_to_total_minutes(hhmm_str) ==
    LET t == Strptime_HM(Strip(hhmm_str))
    IN  [ok |-> t.ok, val |-> t.hour * 60 + t.minute]

total_minutes_to_hhmm(total_minutes) ==
    LET hours == total_minutes \div 60
        minutes == total_minutes % 60
    IN  Pad2(hours) \o <<":">> \o Pad2(minutes)

-----------------------------------------------------------------------------
(* Configuration read from the environment *)

AnaSilva == <<"Ana", "Silva">>
AnaSouza == <<"Ana", "Souza">>
BrunoLima == <<"Bruno", "Lima">>
CarlaDias == <<"Carla", "Dias">>

\* staff members that occur in the data, in the order str comparison gives them
Tecnicos == <<AnaSilva, AnaSouza, BrunoLima, CarlaDias>>

TECNICOS_A_IGNORAR == {CarlaDias}

\* WHATSAPP_TECNICOS: Ana Souza has no number; the ignored Carla Dias has one
WhatsappRegistered == {AnaSilva, BrunoLima, CarlaDias}

LIMITE_MINIMO_HORAS == <<"0", "4", ":", "0", "0">>

\* str.lower() on the words that occur
Lower(w) ==
    CASE w = "Ana" -> "ana"
      [] w = "ANA" -> "ana"
      [] w = "Bruno" -> "bruno"
      [] w = "Carla" -> "carla"
      [] w = "Silva" -> "silva"
      [] w = "Souza" -> "souza"
      [] w = "Lima" -> "lima"
      [] w = "Dias" -> "dias"
      [] OTHER -> w

\* name.split(" ")[0].lower()
FirstNameLower(name) == Lower(name[1])

\* the blank cell "" of a subtotal row
Blank == <<"">>

-----------------------------------------------------------------------------
(* Tables: a row is [Tecnico |-> name, Tempo |-> "HH:MM"] *)

RECURSIVE SumFirst(_, _)
\* the sum of the first n elements of a sequence of numbers
SumFirst(s, n) == IF n = 0 THEN 0 ELSE SumFirst(s, n - 1) + s[n]

\* Series.sum()
SumSeq(s) == SumFirst(s, Len(s))

RECURSIVE GroupKeysFrom(_, _, _)
\* the keys met from row i on, after the keys already met
GroupKeysFrom(df, i, keys) ==
    IF i > Len(df) THEN keys
    ELSE IF \E k \in 1..Len(keys) : keys[k] = df[i].Tecnico
         THEN GroupKeysFrom(df, i + 1, keys)
         ELSE GroupKeysFrom(df, i + 1, Append(keys, df[i].Tecnico))

\* keys of df.groupby(Tecnico, sort=False): distinct names, by first appearance
GroupKeys(df) == GroupKeysFrom(df, 1, <<>>)

\* the group of one key: its rows, in table order
Grupo(df, tecnico) == SelectSeq(df, LAMBDA r : r.Tecnico = tecnico)

\* x.str.split(":").apply(lambda x: int(x[0]) * 60 + int(x[1]))
SplitMinutes(tempo) ==
    LET x == Split(tempo) IN StrToInt(x[1]) * 60 + StrToInt(x[2])

\* as TimedeltaMinutes, with td.dt.seconds (which leaves the days out) in the
\* place of td.dt.total_seconds()
TimedeltaMinutesDtSeconds(tempo) ==
    LET x == Split(tempo \o <<":", "0", "0">>)
        seconds == StrToInt(x[1]) * 3600 + StrToInt(x[2]) * 60 + StrToInt(x[3])
    IN  (seconds % 86400) \div 60

\* pd.to_timedelta(tempo + ":00").total_seconds() // 60
TimedeltaMinutes(tempo) ==
    LET x == Split(tempo \o <<":", "0", "0">>)
        seconds == StrToInt(x[1]) * 3600 + StrToInt(x[2]) * 60 + StrToInt(x[3])
    IN  seconds \div 60

\* the subtotal row of a group
LinhaTotal(grupo) ==
    LET total_min == SumSeq([i \in 1..Len(grupo) |-> SplitMinutes(grupo[i].Tempo)])
    IN  [Tecnico |-> Blank, Tempo |-> total_minutes_to_hhmm(total_min)]

RECURSIVE Blocos(_, _)
\* the list blocos, flattened: each group followed by its subtotal row
Blocos(df, keys) ==
    IF Len(keys) = 0 THEN <<>>
    ELSE LET grupo == Grupo(df, keys[1])
         IN  grupo \o <<LinhaTotal(grupo)>> \o Blocos(df, Tail(keys))

\* inserir_totais_por_tecnico: pd.concat raises ValueError ("No objects to
\* concatenate") when the table has no group; ok = FALSE stands for it
inserir_totais_por_tecnico(df) ==
    LET keys == GroupKeys(df)
    IN  IF Len(keys) = 0 THEN [ok |-> FALSE, val |-> <<>>]
        ELSE [ok |-> TRUE, val |-> Blocos(df, keys)]

\* as SemIgnorados, without the filter
SemIgnoradosSemFiltro(df) == df

\* df[~df[Tecnico].isin(TECNICOS_A_IGNORAR)]
SemIgnorados(df) == SelectSeq(df, LAMBDA r : r.Tecnico \notin TECNICOS_A_IGNORAR)

\* one row of the summary: the summed total_min of a group, formatted
LinhaResumo(df_work, tecnico) ==
    LET grupo == Grupo(df_work, tecnico)
        total_min == SumSeq([i \in 1..Len(grupo) |-> TimedeltaMinutes(grupo[i].Tempo)])
    IN  [Tecnico |-> tecnico, TotalHoras |-> total_minutes_to_hhmm(total_min)]

calcular_soma_por_tecnico(df) ==
    LET df_work == SemIgnorados(df)
        keys == GroupKeys(df_work)
    IN  [i \in 1..Len(keys) |-> LinhaResumo(df_work, keys[i])]

-----------------------------------------------------------------------------
(* Calendar: a date is its day number; day 1 is Monday 2023-12-25 *)

\* datetime.weekday(): Monday is 0, Saturday 5, Sunday 6
Weekday(d) == (d - 1) % 7

IsLeap(y) == (y % 4 = 0 /\ y % 100 # 0) \/ y % 400 = 0

DaysInMonth(y, m) ==
    IF m = 2 THEN (IF IsLeap(y) THEN 29 ELSE 28)
    ELSE IF m \in {4, 6, 9, 11} THEN 30
    ELSE 31

RECURSIVE MonthDay(_, _, _)
\* month and day of the n-th day of year y, walking the months from m
MonthDay(y, n, m) ==
    IF n <= DaysInMonth(y, m) THEN [month |-> m, day |-> n]
    ELSE MonthDay(y, n - DaysInMonth(y, m), m + 1)

\* the fields of the datetime with day number d (2023-12-25 .. 2025)
DateOf(d) ==
    IF d <= 7 THEN [year |-> 2023, month |-> 12, day |-> 24 + d]
    ELSE IF d <= 373
         THEN LET md == MonthDay(2024, d - 7, 1)
              IN  [year |-> 2024, month |-> md.month, day |-> md.day]
         ELSE LET md == MonthDay(2025, d - 373, 1)
              IN  [year |-> 2025, month |-> md.month, day |-> md.day]

\* strftime("%Y-%m-%d")
DataStr(d) ==
    LET t == DateOf(d)
    IN  IntToStr(t.year) \o <<"-">> \o Pad2(t.month) \o <<"-">> \o Pad2(t.day)

\* datetime.strptime(data_str, "%Y-%m-%d").strftime("%d/%m/%Y")
DataFmt(data_str) ==
    SubSeq(data_str, 9, 10) \o <<"/">> \o SubSeq(data_str, 6, 7) \o <<"/">>
        \o SubSeq(data_str, 1, 4)

MESES_PT == <<"Janeiro", "Fevereiro", "Março", "Abril", "Maio", "Junho", "Julho",
              "Julho", "Agosto", "Setembro", "Outubro", "Novembro", "Dezembro">>

\* BASE_PASTA_RELATORIOS / ano / f"{mes_num}-{mes_nome}"
PastaMes(d) ==
    LET ano == IntToStr(DateOf(d).year)
        mes_num == Pad2(DateOf(d).month)
        mes_nome == MESES_PT[StrToInt(mes_num) - 1 + 1]
    IN  [ano |-> ano, mes_num |-> mes_num, mes_nome |-> mes_nome]

\* salvar_csv: pasta / f"{data_ref:%d}.csv"
CaminhoCsv(d) ==
    [pasta |-> PastaMes(d), nome |-> Pad2(DateOf(d).day), ext |-> "csv"]

\* atualizar_planilha_mensal: pasta_mes / f"{mes_nome}.xlsx"
CaminhoPlanilha(d) ==
    [pasta |-> PastaMes(d), nome |-> PastaMes(d).mes_nome, ext |-> "xlsx"]

NoPath == [pasta |-> [ano |-> <<>>, mes_num |-> <<>>, mes_nome |-> ""],
           nome |-> "", ext |-> ""]

-----------------------------------------------------------------------------
(* HTTP: urllib3 Retry as _build_retry configures it *)

\* Retry(total=3)
RetryTotal == 3

status_forcelist == {500, 502, 503, 504}

\* Retry.RETRY_AFTER_STATUS_CODES, honoured because respect_retry_after_header
\* keeps its default
RETRY_AFTER_STATUS_CODES == {413, 429, 503}

\* what one transmission of the POST can end in
Outcomes ==
    {[kind |-> "response", status |-> s, retry_after |-> FALSE] :
        s \in {200, 304, 404, 429, 500, 502, 503, 504}}
    \cup {[kind |-> "response", status |-> 429, retry_after |-> TRUE],
          [kind |-> "conn_error", status |-> 0, retry_after |-> FALSE]}

NoOutcome == [kind |-> "none", status |-> 0, retry_after |-> FALSE]

\* Retry.is_retry for a POST (an allowed method)
is_retry(o) ==
    \/ o.status \in status_forcelist
    \/ o.retry_after /\ o.status \in RETRY_AFTER_STATUS_CODES

\* whether the adapter sends the request again: a forced status, or a
\* connection/read error, while retries are left
ShouldRetry(o, attempts) ==
    /\ attempts < RetryTotal
    /\ (o.kind = "conn_error" \/ is_retry(o))

\* Response.ok: raise_for_status raises for 400 <= status < 600 only
RespOk(o) == ~(400 <= o.status /\ o.status < 600)

HttpIdle == [data_inicial |-> <<>>, data_final |-> <<>>, attempts |-> 0,
             last |-> NoOutcome]

-----------------------------------------------------------------------------
(* Monthly workbook: a sheet is a sequence of rows of cells *)

None == [none |-> TRUE]
Str(x) == [str |-> x]
Num(n) == [int |-> n]

IsNone(cell) == DOMAIN cell = {"none"}

max_row(ws) == Len(ws)
max_column(ws) == IF Len(ws) = 0 THEN 0 ELSE Len(ws[1])

\* str(value).isdigit()
CellIsDigit(cell) ==
    IF DOMAIN cell = {"int"} THEN cell.int >= 0
    ELSE IF DOMAIN cell = {"str"} THEN AllDigits(cell.str)
    ELSE FALSE

\* int(value)
CellInt(cell) == IF DOMAIN cell = {"int"} THEN cell.int ELSE StrToInt(cell.str)

Max(S) == CHOOSE x \in S : \A y \in S : y <= x

\* _mapear_planilha, tecnicos_col: lowercased first word of each header cell of
\* row 2 -> its column; of two columns with one key the later one stays
TecnicosCol(ws) ==
    LET cols == {col \in 2..max_column(ws) : ~IsNone(ws[2][col])}
        key(col) == FirstNameLower(ws[2][col].str)
        keys == {key(col) : col \in cols}
    IN  [k \in keys |-> Max({col \in cols : key(col) = k})]

\* _mapear_planilha, dias_linha: day number of each digit cell of column 1,
\* from row 3 on -> its row
DiasLinha(ws) ==
    LET rows == {row \in 3..max_row(ws) : CellIsDigit(ws[row][1])}
        keys == {CellInt(ws[row][1]) : row \in rows}
    IN  [k \in keys |-> Max({row \in rows : CellInt(ws[row][1]) = k})]

\* dict.get(key): 0 stands for None
Get(map, key) == IF key \in DOMAIN map THEN map[key] ELSE 0

\* as SetCell, one row too high
SetCellLinhaAcima(ws, row, col, value) == [ws EXCEPT ![row - 1][col] = Str(value)]

\* ws.cell(row=row, column=col, value=value)
SetCell(ws, row, col, value) == [ws EXCEPT ![row][col] = Str(value)]

\* the workbooks the month folder may hold
SheetCompleta ==
    << <<Str(<<"Horas">>), None, None, None>>,
       <<None, Str(<<"Ana">>), Str(<<"Bruno", "Lima">>), Str(<<"Carla">>)>>,
       <<Num(15), None, None, None>>,
       <<Num(16), Str(<<"0", "8", ":", "0", "0">>), None, None>>,
       <<Str(<<"1", "7">>), None, None, None>> >>

SheetSemBruno ==
    << <<Str(<<"Horas">>), None, None, None>>,
       <<None, Str(<<"ANA">>), None, Str(<<"Carla">>)>>,
       <<Num(15), None, None, None>>,
       <<Num(16), None, None, Str(<<"0", "1", ":", "0", "0">>)>>,
       <<Num(17), None, None, None>> >>

SheetSemDias ==
    << <<Str(<<"Horas">>), None, None, None>>,
       <<None, Str(<<"Ana">>), Str(<<"Bruno", "Lima">>), Str(<<"Carla">>)>>,
       <<Str(<<"Total">>), None, None, None>> >>

Planilhas == {SheetCompleta, SheetSemBruno, SheetSemDias}

PlanilhaIdle ==
    [path |-> NoPath, existe |-> FALSE, disco |-> <<>>, ws |-> <<>>,
     map_tecnico |-> <<>>, linha_dia |-> 0, i |-> 0, escritas |-> {},
     salvo |-> FALSE]

-----------------------------------------------------------------------------
(* Response bodies of the API *)

Tempos == {<<"0", "0", ":", "2", "0">>,
           <<"0", "4", ":", "1", "5">>,
           <<"2", "5", ":", "0", "0">>}

Linhas == [Tecnico : {Tecnicos[i] : i \in 1..Len(Tecnicos)}, Tempo : Tempos]

\* every body of at most MaxRows rows, and one that lacks the required columns
AllBodies ==
    {[colunas |-> TRUE, linhas |-> l] :
        l \in UNION {[1..n -> Linhas] : n \in 0..MaxRows}}
    \cup {[colunas |-> FALSE, linhas |-> <<>>]}

\* the example of the specification, a day without records, a day on which
\* a total passes 24 hours, and a body that lacks the required columns
ExampleBodies ==
    {[colunas |-> TRUE,
      linhas |-> <<[Tecnico |-> AnaSilva, Tempo |-> <<"0", "1", ":", "3", "0">>],
                   [Tecnico |-> BrunoLima, Tempo |-> <<"0", "0", ":", "2", "0">>],
                   [Tecnico |-> AnaSilva, Tempo |-> <<"0", "2", ":", "4", "5">>]>>],
     [colunas |-> TRUE, linhas |-> <<>>],
     [colunas |-> TRUE,
      linhas |-> <<[Tecnico |-> AnaSilva, Tempo |-> <<"2", "5", ":", "0", "0">>]>>],
     [colunas |-> FALSE, linhas |-> <<>>]}

NoBody == [colunas |-> FALSE, linhas |-> <<>>]

\* position of a name in the order of str comparison
Rank(name) == CHOOSE i \in 1..Len(Tecnicos) : Tecnicos[i] = name

\* df.sort_values(by=Tecnico): the orders of the rows that are sorted by name
\* (the default sort kind promises no order among equal names)
SortValues(linhas) ==
    LET n == Len(linhas)
        perms == {p \in [1..n -> 1..n] : \A i, j \in 1..n : i # j => p[i] # p[j]}
        sorted(p) == \A i \in 1..n : \A j \in 1..n :
                        i < j => Rank(linhas[p[i]].Tecnico) <= Rank(linhas[p[j]].Tecnico)
    IN  {[i \in 1..n |-> linhas[p[i]]] : p \in {q \in perms : sorted(q)}}

-----------------------------------------------------------------------------
(* State of a run *)

AlertaIdle == [i |-> 0, avaliados |-> {}, enviados |-> {}]

FinIdle == [handler_closed |-> FALSE, log_existe |-> "?", log_email |-> "none",
            log_remove |-> "none", db_existe |-> "?", db_remove |-> "none"]

NoErro == [tipo |-> "", em |-> ""]

CodecIdle == [n |-> 0, texto |-> <<>>, parsed |-> [ok |-> FALSE, val |-> 0]]

\* the state when main is entered on one of the run dates Days
InitOn(Days) ==
    /\ pc = "start"
    /\ today \in Days
    /\ data_ref = 0
    /\ http = HttpIdle
    /\ csv_raw = NoBody
    /\ df_original = <<>>
    /\ df_para_csv = <<>>
    /\ resumo = <<>>
    /\ corpo_email = [data_fmt |-> <<>>, linhas |-> <<>>]
    /\ csv_path = NoPath
    /\ email = "none"
    /\ alerta = AlertaIdle
    /\ planilha = PlanilhaIdle
    /\ fin = FinIdle
    /\ erro = NoErro
    /\ codec = CodecIdle

\* an exception of type tipo, raised in the function em, leaves the try block
\* of main for its except clause
Raise(tipo, em) == pc' = "except" /\ erro' = [tipo |-> tipo, em |-> em]

-----------------------------------------------------------------------------
(* main: the reference date *)

\* data_ref = datetime.now() - timedelta(days=1)
ComputeDataRef ==
    /\ pc = "start"
    /\ data_ref' = today - 1
    /\ pc' = "weekday"
    /\ UNCHANGED <<today, http, csv_raw, df_original, df_para_csv, resumo, corpo_email,
                   csv_path, email, alerta, planilha, fin, erro, codec>>

\* as IsWeekend, with Sunday alone
IsWeekendSundayOnly(d) == Weekday(d) >= 6

\* the test of the while loop: 5 = Saturday, 6 = Sunday
IsWeekend(d) == Weekday(d) >= 5

\* while data_ref.weekday() >= 5: data_ref -= timedelta(days=1)
SkipWeekend ==
    /\ pc = "weekday"
    /\ IsWeekend(data_ref)
    /\ data_ref' = data_ref - 1
    /\ UNCHANGED <<pc, today, http, csv_raw, df_original, df_para_csv, resumo,
                   corpo_email, csv_path, email, alerta, planilha, fin, erro, codec>>

\* the loop ends; main enters the try block
EnterTry ==
    /\ pc = "weekday"
    /\ ~IsWeekend(data_ref)
    /\ pc' = "fetch"
    /\ UNCHANGED <<today, data_ref, http, csv_raw, df_original, df_para_csv, resumo,
                   corpo_email, csv_path, email, alerta, planilha, fin, erro, codec>>

-----------------------------------------------------------------------------
(* solicitar_dados_api *)

\* verificar_conexao and the building of the request: main passes data_str
\* as both data_inicial and data_final
Probe ==
    /\ pc = "fetch"
    /\ \E conectado \in BOOLEAN :
          IF conectado
          THEN /\ http' = [HttpIdle EXCEPT !.data_inicial = DataStr(data_ref),
                                           !.data_final = DataStr(data_ref)]
               /\ pc' = "post"
               /\ erro' = erro
          ELSE /\ Raise("ConnectionError", "solicitar_dados_api")
               /\ http' = http
    /\ UNCHANGED <<today, data_ref, csv_raw, df_original, df_para_csv, resumo,
                   corpo_email, csv_path, email, alerta, planilha, fin, codec>>

\* SESSION.post: one transmission; the adapter sends again while Retry allows,
\* raises when connection errors exhaust it, and else hands the response over
Post ==
    /\ pc = "post"
    /\ \E o \in Outcomes :
          IF ShouldRetry(o, http.attempts)
          THEN /\ http' = [http EXCEPT !.attempts = @ + 1, !.last = o]
               /\ pc' = pc
               /\ erro' = erro
          ELSE IF o.kind = "conn_error"
          THEN /\ Raise("ConnectionError", "SESSION.post")
               /\ http' = HttpIdle
          ELSE /\ http' = [http EXCEPT !.attempts = @ + 1, !.last = o]
               /\ pc' = "resp"
               /\ erro' = erro
    /\ UNCHANGED <<today, data_ref, csv_raw, df_original, df_para_csv, resumo,
                   corpo_email, csv_path, email, alerta, planilha, fin, codec>>

\* if resp.ok: return resp.text, else resp.raise_for_status(); the body is one
\* of Bodies
Return(Bodies) ==
    /\ pc = "resp"
    /\ IF RespOk(http.last)
       THEN /\ \E body \in Bodies : csv_raw' = body
            /\ pc' = "processar"
            /\ erro' = erro
       ELSE /\ Raise("HTTPError", "solicitar_dados_api")
            /\ csv_raw' = csv_raw
    /\ http' = HttpIdle
    /\ UNCHANGED <<today, data_ref, df_original, df_para_csv, resumo, corpo_email,
                   csv_path, email, alerta, planilha, fin, codec>>

-----------------------------------------------------------------------------
(* main: clean, aggregate, render, save, send *)

\* processar_csv: ValueError when a required column is missing, else the rows
\* sorted by staff member
ProcessarCsv ==
    /\ pc = "processar"
    /\ IF csv_raw.colunas
       THEN /\ \E df \in SortValues(csv_raw.linhas) : df_original' = df
            /\ pc' = "inserir"
            /\ erro' = erro
       ELSE /\ Raise("ValueError", "processar_csv")
            /\ df_original' = df_original
    /\ UNCHANGED <<today, data_ref, http, csv_raw, df_para_csv, resumo, corpo_email,
                   csv_path, email, alerta, planilha, fin, codec>>

\* df_para_csv = inserir_totais_por_tecnico(df_original)
InserirTotais ==
    /\ pc = "inserir"
    /\ LET r == inserir_totais_por_tecnico(df_original)
       IN  IF r.ok
           THEN /\ df_para_csv' = r.val
                /\ pc' = "calcular"
                /\ erro' = erro
           ELSE /\ Raise("ValueError", "inserir_totais_por_tecnico")
                /\ df_para_csv' = df_para_csv
    /\ UNCHANGED <<today, data_ref, http, csv_raw, df_original, resumo, corpo_email,
                   csv_path, email, alerta, planilha, fin, codec>>

\* resumo = calcular_soma_por_tecnico(df_original)
CalcularSoma ==
    /\ pc = "calcular"
    /\ resumo' = calcular_soma_por_tecnico(df_original)
    /\ pc' = "corpo"
    /\ UNCHANGED <<today, data_ref, http, csv_raw, df_original, df_para_csv, corpo_email,
                   csv_path, email, alerta, planilha, fin, erro, codec>>

\* gerar_corpo_email: the formatted date and one "name: total" line per row
gerar_corpo_email(res, data_str) ==
    [data_fmt |-> DataFmt(data_str),
     linhas |-> [i \in 1..Len(res) |-> <<res[i].Tecnico, res[i].TotalHoras>>]]

GerarCorpo ==
    /\ pc = "corpo"
    /\ corpo_email' = gerar_corpo_email(resumo, DataStr(data_ref))
    /\ pc' = "salvar"
    /\ UNCHANGED <<today, data_ref, http, csv_raw, df_original, df_para_csv, resumo,
                   csv_path, email, alerta, planilha, fin, erro, codec>>

\* salvar_csv: the folder or the file may fail to be written
SalvarCsv ==
    /\ pc = "salvar"
    /\ \E ok \in BOOLEAN :
          IF ok
          THEN /\ csv_path' = CaminhoCsv(data_ref)
               /\ pc' = "email"
               /\ erro' = erro
          ELSE /\ Raise("OSError", "salvar_csv")
               /\ csv_path' = csv_path
    /\ UNCHANGED <<today, data_ref, http, csv_raw, df_original, df_para_csv, resumo,
                   corpo_email, email, alerta, planilha, fin, codec>>

\* enviar_email_com_anexo: login or transmission may fail
EnviarEmail ==
    /\ pc = "email"
    /\ \E ok \in BOOLEAN :
          IF ok
          THEN /\ email' = "sent"
               /\ alerta' = [AlertaIdle EXCEPT !.i = 1]
               /\ pc' = "alertas"
               /\ erro' = erro
          ELSE /\ Raise("SMTPException", "enviar_email_com_anexo")
               /\ email' = email
               /\ alerta' = alerta
    /\ UNCHANGED <<today, data_ref, http, csv_raw, df_original, df_para_csv, resumo,
                   corpo_email, csv_path, planilha, fin, codec>>

-----------------------------------------------------------------------------
(* main: WhatsApp alerts *)

\* enviar_alerta_whatsapp up to the send: whether kit.sendwhatmsg_instantly is
\* called for this staff member
enviar_alerta_whatsapp(tecnico) ==
    /\ tecnico \notin TECNICOS_A_IGNORAR
    /\ tecnico \in WhatsappRegistered

\* one pass of the loop over resumo.iterrows(); a total that strptime rejects
\* raises out of the loop; a failed send is logged and the loop goes on
AlertaLinha ==
    /\ pc = "alertas"
    /\ alerta.i <= Len(resumo)
    /\ LET row == resumo[alerta.i]
           limite_min == hhmm_to_total_minutes(LIMITE_MINIMO_HORAS)
           total == hhmm_to_total_minutes(row.TotalHoras)
       IN  IF ~total.ok
           THEN /\ Raise("ValueError", "hhmm_to_total_minutes")
                /\ alerta' = alerta
           ELSE /\ alerta' =
                     [i |-> alerta.i + 1,
                      avaliados |-> alerta.avaliados \cup {row.Tecnico},
                      enviados |->
                          IF total.val <= limite_min.val
                             /\ enviar_alerta_whatsapp(row.Tecnico)
                          THEN alerta.enviados \cup {row.Tecnico}
                          ELSE alerta.enviados]
                /\ pc' = pc
                /\ erro' = erro
    /\ UNCHANGED <<today, data_ref, http, csv_raw, df_original, df_para_csv, resumo,
                   corpo_email, csv_path, email, planilha, fin, codec>>

\* the loop is exhausted
AlertasFim ==
    /\ pc = "alertas"
    /\ alerta.i > Len(resumo)
    /\ pc' = "planilha"
    /\ UNCHANGED <<today, data_ref, http, csv_raw, df_original, df_para_csv, resumo,
                   corpo_email, csv_path, email, alerta, planilha, fin, erro, codec>>

-----------------------------------------------------------------------------
(* atualizar_planilha_mensal *)

\* up to the loop: the path, the file (missing: return), the maps, the row of
\* the day (missing: return)
AbrirPlanilha ==
    /\ pc = "planilha"
    /\ \E existe \in BOOLEAN, disco \in Planilhas :
          LET path == CaminhoPlanilha(data_ref)
              linha_dia == Get(DiasLinha(disco), DateOf(data_ref).day)
          IN  IF ~existe
              THEN /\ planilha' = [PlanilhaIdle EXCEPT !.path = path]
                   /\ pc' = "concluido"
              ELSE /\ planilha' =
                        [path |-> path, existe |-> TRUE, disco |-> disco, ws |-> disco,
                         map_tecnico |-> TecnicosCol(disco), linha_dia |-> linha_dia,
                         i |-> IF linha_dia = 0 THEN 0 ELSE 1, escritas |-> {},
                         salvo |-> FALSE]
                   /\ pc' = IF linha_dia = 0 THEN "concluido" ELSE "planilha_linhas"
    /\ UNCHANGED <<today, data_ref, http, csv_raw, df_original, df_para_csv, resumo,
                   corpo_email, csv_path, email, alerta, fin, erro, codec>>

\* the column of a summary row: 0 when the row is ignored or has no column
ColunaDe(map_tecnico, tecnico) ==
    IF tecnico \in TECNICOS_A_IGNORAR THEN 0
    ELSE Get(map_tecnico, FirstNameLower(tecnico))

\* one pass of the loop over resumo.iterrows()
PlanilhaLinha ==
    /\ pc = "planilha_linhas"
    /\ planilha.i <= Len(resumo)
    /\ LET row == resumo[planilha.i]
           col == ColunaDe(planilha.map_tecnico, row.Tecnico)
       IN  IF col # 0
           THEN planilha' =
                    [planilha EXCEPT
                        !.ws = SetCell(@, planilha.linha_dia, col, row.TotalHoras),
                        !.escritas = @ \cup {[tecnico |-> row.Tecnico,
                                              row |-> planilha.linha_dia,
                                              col |-> col,
                                              valor |-> row.TotalHoras]},
                        !.i = @ + 1]
           ELSE planilha' = [planilha EXCEPT !.i = @ + 1]
    /\ UNCHANGED <<pc, today, data_ref, http, csv_raw, df_original, df_para_csv, resumo,
                   corpo_email, csv_path, email, alerta, fin, erro, codec>>

\* wb.save(planilha_path): the file may be locked
PlanilhaSalvar ==
    /\ pc = "planilha_linhas"
    /\ planilha.i > Len(resumo)
    /\ \E ok \in BOOLEAN :
          IF ok
          THEN /\ planilha' = [planilha EXCEPT !.disco = planilha.ws, !.salvo = TRUE]
               /\ pc' = "concluido"
               /\ erro' = erro
          ELSE /\ Raise("PermissionError", "atualizar_planilha_mensal")
               /\ planilha' = planilha
    /\ UNCHANGED <<today, data_ref, http, csv_raw, df_original, df_para_csv, resumo,
                   corpo_email, csv_path, email, alerta, fin, codec>>

-----------------------------------------------------------------------------
(* main: the end of the try block, except, finally *)

\* logging.info("Script concluido")
Concluido ==
    /\ pc = "concluido"
    /\ pc' = "finally"
    /\ UNCHANGED <<today, data_ref, http, csv_raw, df_original, df_para_csv, resumo,
                   corpo_email, csv_path, email, alerta, planilha, fin, erro, codec>>

\* as Except, with the report e-mail sent from the handler
ExceptEnviaEmail ==
    /\ pc = "except"
    /\ pc' = "email"
    /\ UNCHANGED <<today, data_ref, http, csv_raw, df_original, df_para_csv, resumo,
                   corpo_email, csv_path, email, alerta, planilha, fin, erro, codec>>

\* except Exception: logging.critical
Except ==
    /\ pc = "except"
    /\ pc' = "finally"
    /\ UNCHANGED <<today, data_ref, http, csv_raw, df_original, df_para_csv, resumo,
                   corpo_email, csv_path, email, alerta, planilha, fin, erro, codec>>

\* file_handler.close(); root_logger.removeHandler(file_handler)
FinCloseHandler ==
    /\ pc = "finally"
    /\ fin' = [fin EXCEPT !.handler_closed = TRUE]
    /\ pc' = "fin_log"
    /\ UNCHANGED <<today, data_ref, http, csv_raw, df_original, df_para_csv, resumo,
                   corpo_email, csv_path, email, alerta, planilha, erro, codec>>

\* as FinLogEmail, with the removal of the log inside the try block: a failed
\* e-mail skips it
FinLogEmailSemFinally ==
    /\ pc = "fin_log"
    /\ \E existe \in BOOLEAN, ok \in BOOLEAN :
          IF existe
          THEN /\ fin' = [fin EXCEPT !.log_existe = "yes",
                                     !.log_email = IF ok THEN "sent" ELSE "failed"]
               /\ pc' = IF ok THEN "fin_log_remove" ELSE "fin_db"
          ELSE /\ fin' = [fin EXCEPT !.log_existe = "no"]
               /\ pc' = "fin_db"
    /\ UNCHANGED <<today, data_ref, http, csv_raw, df_original, df_para_csv, resumo,
                   corpo_email, csv_path, email, alerta, planilha, erro, codec>>

\* if log_file_path.exists(): try to e-mail the log (any failure is caught)
FinLogEmail ==
    /\ pc = "fin_log"
    /\ \E existe \in BOOLEAN, ok \in BOOLEAN :
          IF existe
          THEN /\ fin' = [fin EXCEPT !.log_existe = "yes",
                                     !.log_email = IF ok THEN "sent" ELSE "failed"]
               /\ pc' = "fin_log_remove"
          ELSE /\ fin' = [fin EXCEPT !.log_existe = "no"]
               /\ pc' = "fin_db"
    /\ UNCHANGED <<today, data_ref, http, csv_raw, df_original, df_para_csv, resumo,
                   corpo_email, csv_path, email, alerta, planilha, erro, codec>>

\* the inner finally: os.remove(log_file_path), OSError caught
FinLogRemove ==
    /\ pc = "fin_log_remove"
    /\ \E ok \in BOOLEAN :
          fin' = [fin EXCEPT !.log_remove = IF ok THEN "removed" ELSE "failed"]
    /\ pc' = "fin_db"
    /\ UNCHANGED <<today, data_ref, http, csv_raw, df_original, df_para_csv, resumo,
                   corpo_email, csv_path, email, alerta, planilha, erro, codec>>

\* if pywhatkit_db_path.exists(): os.remove, OSError caught
FinDbRemove ==
    /\ pc = "fin_db"
    /\ \E existe \in BOOLEAN, ok \in BOOLEAN :
          fin' = [fin EXCEPT
                    !.db_existe = IF existe THEN "yes" ELSE "no",
                    !.db_remove = IF ~existe THEN "none"
                                  ELSE IF ok THEN "removed" ELSE "failed"]
    /\ pc' = "done"
    /\ UNCHANGED <<today, data_ref, http, csv_raw, df_original, df_para_csv, resumo,
                   corpo_email, csv_path, email, alerta, planilha, erro, codec>>

-----------------------------------------------------------------------------
(* Specifications of main *)

\* a run of main whose API bodies are drawn from Bodies
NextOf(Bodies) ==
    \/ ComputeDataRef
    \/ SkipWeekend
    \/ EnterTry
    \/ Probe
    \/ Post
    \/ Return(Bodies)
    \/ ProcessarCsv
    \/ InserirTotais
    \/ CalcularSoma
    \/ GerarCorpo
    \/ SalvarCsv
    \/ EnviarEmail
    \/ AlertaLinha
    \/ AlertasFim
    \/ AbrirPlanilha
    \/ PlanilhaLinha
    \/ PlanilhaSalvar
    \/ Concluido
    \/ Except
    \/ FinCloseHandler
    \/ FinLogEmail
    \/ FinLogRemove
    \/ FinDbRemove

\* every table of at most MaxRows rows, on a few run dates
Init == InitOn(FirstMainDay..LastMainDay)
Next == NextOf(AllBodies)
Spec == Init /\ [][Next]_vars

\* every run date of a year, on the example bodies
InitYear == InitOn(FirstRunDay..LastRunDay)
NextYear == NextOf(ExampleBodies)
SpecYear == InitYear /\ [][NextYear]_vars

\* main is one sequential thread: a step that can be taken is taken
FairSpec == Init /\ [][NextYear]_vars /\ WF_vars(NextYear)

-----------------------------------------------------------------------------
(* Driver of the time codec: format a minute count, parse the text back *)

InitCodec ==
    /\ pc = "codec_format"
    /\ codec \in {[CodecIdle EXCEPT !.n = n] : n \in 0..MaxMinutes}
    /\ today = 0
    /\ data_ref = 0
    /\ http = HttpIdle
    /\ csv_raw = NoBody
    /\ df_original = <<>>
    /\ df_para_csv = <<>>
    /\ resumo = <<>>
    /\ corpo_email = [data_fmt |-> <<>>, linhas |-> <<>>]
    /\ csv_path = NoPath
    /\ email = "none"
    /\ alerta = AlertaIdle
    /\ planilha = PlanilhaIdle
    /\ fin = FinIdle
    /\ erro = NoErro

CodecFormat ==
    /\ pc = "codec_format"
    /\ codec' = [codec EXCEPT !.texto = total_minutes_to_hhmm(codec.n)]
    /\ pc' = "codec_parse"
    /\ UNCHANGED <<today, data_ref, http, csv_raw, df_original, df_para_csv, resumo,
                   corpo_email, csv_path, email, alerta, planilha, fin, erro>>

CodecParse ==
    /\ pc = "codec_parse"
    /\ codec' = [codec EXCEPT !.parsed = hhmm_to_total_minutes(codec.texto)]
    /\ pc' = "codec_done"
    /\ UNCHANGED <<today, data_ref, http, csv_raw, df_original, df_para_csv, resumo,
                   corpo_email, csv_path, email, alerta, planilha, fin, erro>>

NextCodec == CodecFormat \/ CodecParse
SpecCodec == InitCodec /\ [][NextCodec]_vars

-----------------------------------------------------------------------------
(* Readings used by the properties *)

\* the minutes a duration text "H..H:MM" stands for
DurationMinutes(tempo) ==
    LET k == FindColon(tempo, 1)
    IN  StrToInt(SubSeq(tempo, 1, k - 1)) * 60 + StrToInt(SubSeq(tempo, k + 1, Len(tempo)))

\* the staff members of a table
Members(df) == {df[i].Tecnico : i \in 1..Len(df)}

\* the minutes of all rows of one staff member
MemberMinutes(df, t) ==
    LET g == SelectSeq(df, LAMBDA r : r.Tecnico = t)
    IN  SumSeq([i \in 1..Len(g) |-> DurationMinutes(g[i].Tempo)])

\* every order of the rows of a table
Reorderings(df) ==
    LET n == Len(df)
    IN  {[i \in 1..n |-> df[p[i]]] :
            p \in {q \in [1..n -> 1..n] : \A i, j \in 1..n : i # j => q[i] # q[j]}}

\* the totals a summary table gives for one staff member
TotalsOf(res, t) == {res[i].TotalHoras : i \in {j \in 1..Len(res) : res[j].Tecnico = t}}

\* the Portuguese names of the twelve calendar months
MesesDoAno == <<"Janeiro", "Fevereiro", "Março", "Abril", "Maio", "Junho", "Julho",
                "Agosto", "Setembro", "Outubro", "Novembro", "Dezembro">>

-----------------------------------------------------------------------------
(* Properties *)

\* C1: once the summary is computed, every staff member outside the ignore
\* list with at least one row has exactly one summary row, its total is the
\* sum of the member's row durations in minutes formatted as HH:MM, and the
\* summary of every reordering of the table gives the member the same total.
SummaryTotalIsSum ==
    pc = "corpo" =>
        \A t \in Members(df_original) \ TECNICOS_A_IGNORAR :
            /\ Cardinality({i \in 1..Len(resumo) : resumo[i].Tecnico = t}) = 1
            /\ TotalsOf(resumo, t)
                  = {total_minutes_to_hhmm(MemberMinutes(df_original, t))}
            /\ \A q \in Reorderings(df_original) :
                  TotalsOf(calcular_soma_por_tecnico(q), t) = TotalsOf(resumo, t)

\* a summary was computed from two rows of one staff member, one of them of
\* more than 24 hours
SummaryTotalIsSumWitness ==
    /\ pc = "corpo"
    /\ Len(df_original) = 2
    /\ df_original[1].Tecnico = AnaSouza
    /\ df_original[2].Tecnico = AnaSouza
    /\ df_original[1].Tempo # df_original[2].Tempo
    /\ resumo = <<[Tecnico |-> AnaSouza, TotalHoras |-> <<"2", "9", ":", "1", "5">>]>>

\* the annotated table out of the table df: one subtotal row per staff member,
\* each right after the block of all rows of that member in input order, its
\* duration the sum of the block
AnnotatedTable(df, out) ==
    LET subtotals == {i \in 1..Len(out) : out[i].Tecnico = Blank}
        start(i) == Max({0} \cup {j \in subtotals : j < i}) + 1
        block(i) == SubSeq(out, start(i), i - 1)
    IN  /\ Cardinality(subtotals) = Cardinality(Members(df))
        /\ Len(out) = Len(df) + Cardinality(Members(df))
        /\ \A i \in subtotals :
              /\ Len(block(i)) > 0
              /\ block(i) = SelectSeq(df, LAMBDA r : r.Tecnico = block(i)[1].Tecnico)
              /\ out[i].Tempo = total_minutes_to_hhmm(
                    SumSeq([k \in 1..Len(block(i)) |-> DurationMinutes(block(i)[k].Tempo)]))

\* C2: for any cleaned table inserir_totais_por_tecnico yields a result (it
\* does not raise), and the result holds exactly one subtotal row per distinct
\* staff member, right after the block of that member's rows in input order,
\* with the block's summed duration as HH:MM.
SubtotalsFollowGroups ==
    /\ erro.em # "inserir_totais_por_tecnico"
    /\ pc = "calcular" => AnnotatedTable(df_original, df_para_csv)

\* C3: a staff member of the ignore list is never a row of the summary, is
\* never sent a chat alert, and never has a workbook cell written for them.
IgnoredNeverAppear ==
    \A t \in TECNICOS_A_IGNORAR :
        /\ \A i \in 1..Len(resumo) : resumo[i].Tecnico # t
        /\ t \notin alerta.enviados
        /\ \A w \in planilha.escritas : w.tecnico # t

\* a run ended normally on data holding an ignored member below the threshold,
\* with an alert sent and a cell written for somebody else
IgnoredNeverAppearWitness ==
    /\ pc = "done"
    /\ erro = NoErro
    /\ planilha.salvo
    /\ \E i \in 1..Len(df_original) :
          /\ df_original[i].Tecnico \in TECNICOS_A_IGNORAR
          /\ DurationMinutes(df_original[i].Tempo) <= 240
    /\ alerta.enviados # {}
    /\ planilha.escritas # {}

\* C4: in a finished run whose report e-mail was delivered, a chat alert was
\* attempted for the staff member of a summary row exactly when the row's total
\* is at most 04:00 and the member has a registered number, for every row.
AlertsMatchThreshold ==
    (pc = "done" /\ email = "sent") =>
        \A i \in 1..Len(resumo) :
            resumo[i].Tecnico \in alerta.enviados
            <=> /\ DurationMinutes(resumo[i].TotalHoras)
                      <= DurationMinutes(LIMITE_MINIMO_HORAS)
                /\ resumo[i].Tecnico \in WhatsappRegistered

\* C5: parsing the HH:MM text of a minute count gives the minute count back.
RoundTrip ==
    pc = "codec_done" => codec.parsed.ok /\ codec.parsed.val = codec.n

\* what the finalization has done when main ends
FinalizationDone ==
    /\ fin.handler_closed
    /\ fin.log_existe # "?"
    /\ fin.log_existe = "yes" => fin.log_email # "none" /\ fin.log_remove # "none"
    /\ fin.db_existe # "?"
    /\ fin.db_existe = "yes" => fin.db_remove # "none"

\* C6: every run reaches the end of main, and there the log handler is closed,
\* an existing log file was e-mailed (attempted) and then removed (attempted)
\* whether or not the e-mail failed, and an existing PyWhatKit DB file was
\* removed (attempted).
FinalizationAlwaysRuns ==
    /\ <>(pc = "done")
    /\ [](pc = "done" => FinalizationDone)

\* a run that failed in the pipeline ended with the log e-mail failed and the
\* log file still removed
FinalizationAlwaysRunsWitness ==
    /\ pc = "done"
    /\ erro # NoErro
    /\ fin.log_email = "failed"
    /\ fin.log_remove # "none"
    /\ fin.db_remove # "none"

\* all cells of ws2 but (r, c) are those of ws1
SameOutside(ws1, ws2, r, c) ==
    /\ Len(ws2) = Len(ws1)
    /\ \A i \in 1..Len(ws1) :
          /\ Len(ws2[i]) = Len(ws1[i])
          /\ \A j \in 1..Len(ws1[i]) : (i # r \/ j # c) => ws2[i][j] = ws1[i][j]

\* the column the maps give a summary row (0: ignored or unmatched)
MatchedCol(k) ==
    IF resumo[k].Tecnico \in TECNICOS_A_IGNORAR THEN 0
    ELSE Get(planilha.map_tecnico, FirstNameLower(resumo[k].Tecnico))

\* C7: processing a summary row of a non-ignored member whose first name maps
\* to column c, with the day mapped to row r, sets cell (r, c) to the row's
\* total as a string and changes no other cell; any other row changes no cell;
\* and the saved workbook differs from the loaded one only in the (day row,
\* staff column) cells of matched summary rows.
LedgerWritesOnlyMatchedCells ==
    [][ /\ (pc = "planilha_linhas" /\ planilha'.i = planilha.i + 1) =>
              LET r == planilha.linha_dia
                  c == MatchedCol(planilha.i)
              IN  IF c # 0
                  THEN /\ planilha'.ws[r][c] = Str(resumo[planilha.i].TotalHoras)
                       /\ SameOutside(planilha.ws, planilha'.ws, r, c)
                  ELSE planilha'.ws = planilha.ws
        /\ (planilha.existe /\ planilha'.disco # planilha.disco) =>
              /\ planilha'.salvo
              /\ \A i \in 1..Len(planilha.disco) : \A j \in 1..Len(planilha.disco[i]) :
                    planilha'.disco[i][j] # planilha.disco[i][j] =>
                        /\ i = planilha.linha_dia
                        /\ \E k \in 1..Len(resumo) : MatchedCol(k) = j
      ]_vars

\* a workbook was saved with a total written into the day's row
LedgerWritesOnlyMatchedCellsWitness ==
    /\ pc = "done"
    /\ planilha.salvo
    /\ planilha.escritas # {}
    /\ planilha.disco[planilha.linha_dia][2] = Str(<<"0", "4", ":", "1", "5">>)
    /\ planilha.disco[4][4] = Str(<<"0", "1", ":", "0", "0">>)

\* a path lies in <year>/<month-number>-<month-name> of the date d
InMonthFolder(path, d) ==
    /\ path.pasta.ano = IntToStr(DateOf(d).year)
    /\ path.pasta.mes_num = Pad2(DateOf(d).month)
    /\ path.pasta.mes_nome = MesesDoAno[DateOf(d).month]

\* C8: the CSV path and the workbook path lie in the folder
\* <year>/<month-number>-<month-name> of the reference date, the month name
\* being the Portuguese name of that month, and the workbook is named after it.
PathsNameTheMonth ==
    /\ csv_path # NoPath =>
          /\ InMonthFolder(csv_path, data_ref)
          /\ csv_path.nome = Pad2(DateOf(data_ref).day)
    /\ planilha.path # NoPath =>
          /\ InMonthFolder(planilha.path, data_ref)
          /\ planilha.path.nome = MesesDoAno[DateOf(data_ref).month]

\* C9 (its clause on the final response): solicitar_dados_api returns the body
\* of the final response exactly when its status is 2xx, and every other final
\* status ends in an API error instead of a returned body.
FinalResponseSurfaced ==
    [][ (pc = "resp" /\ pc' # pc) =>
            IF http.last.status \in 200..299
            THEN pc' = "processar"
            ELSE pc' = "except" /\ erro'.tipo = "HTTPError"
      ]_vars

\* C10: the loop of main runs at most twice, and the reference date it leaves
\* is the latest Monday-to-Friday date strictly before the run date (1 to 3
\* days before it, never a Saturday or Sunday, no other day skipped); the
\* request carries that date as both data_inicial and data_final.
PreviousBusinessDay ==
    /\ pc = "weekday" =>
          /\ today - data_ref \in 1..3
          /\ Weekday(data_ref) >= 5 => today - data_ref <= 2
          /\ \A d \in (data_ref + 1)..(today - 1) : Weekday(d) >= 5
    /\ pc \notin {"start", "weekday"} =>
          /\ data_ref < today
          /\ today - data_ref \in 1..3
          /\ Weekday(data_ref) \in 0..4
          /\ \A d \in (data_ref + 1)..(today - 1) : Weekday(d) \in {5, 6}
    /\ pc \in {"post", "resp"} =>
          /\ http.data_inicial = http.data_final
          /\ http.data_inicial = DataStr(data_ref)

\* a request is under way on a Monday for the Friday three days before
PreviousBusinessDayWitness ==
    /\ pc = "post"
    /\ Weekday(today) = 0
    /\ data_ref = today - 3
    /\ Weekday(data_ref) = 4
    /\ http.data_final = DataStr(today - 3)

\* the place of a position of main in the fixed order of the pipeline: fetch,
\* clean, annotated table, summary, render, save, report e-mail, chat alerts,
\* ledger update (0: before the pipeline, 10: after it)
StageOf(p) ==
    CASE p \in {"start", "weekday"} -> 0
      [] p \in {"fetch", "post", "resp"} -> 1
      [] p = "processar" -> 2
      [] p = "inserir" -> 3
      [] p = "calcular" -> 4
      [] p = "corpo" -> 5
      [] p = "salvar" -> 6
      [] p = "email" -> 7
      [] p = "alertas" -> 8
      [] p \in {"planilha", "planilha_linhas"} -> 9
      [] OTHER -> 10

\* the functions of fetch, clean, aggregate and render
AntesDoEmail ==
    {"solicitar_dados_api", "SESSION.post", "processar_csv", "inserir_totais_por_tecnico"}

\* C11: a step of a stage of main leads to the same stage, to the next stage
\* of the fixed order, or out of the pipeline; once an error was raised or the
\* pipeline was left, no stage runs again; a chat alert is sent and a workbook
\* cell is written only after the report e-mail was delivered; the report
\* e-mail is sent only by the e-mail stage of a run without an error, and never
\* in a run whose fetch, clean, aggregate or render raised.
StagesFormPrefix ==
    /\ [][ /\ StageOf(pc) < 10 =>
                 StageOf(pc') \in {StageOf(pc), StageOf(pc) + 1, 10}
           /\ StageOf(pc) = 10 => StageOf(pc') = 10
           /\ pc' = "except" /\ pc # "except" => StageOf(pc) \in 1..9 /\ erro' # NoErro
           /\ erro # NoErro => StageOf(pc') = 10
           /\ (email' = "sent" /\ email # "sent") => pc = "email" /\ erro = NoErro
           /\ alerta'.enviados # alerta.enviados => pc = "alertas" /\ email = "sent"
           /\ planilha'.ws # planilha.ws => StageOf(pc) = 9 /\ email = "sent"
         ]_vars
    /\ [](alerta.enviados # {} \/ planilha.escritas # {} => email = "sent")
    /\ [](erro.em \in AntesDoEmail =>
            email = "none" /\ alerta.enviados = {} /\ planilha.escritas = {})

\* a run ended whose report e-mail failed after the CSV was saved: no alert
\* was evaluated and the workbook was not opened
StagesFormPrefixWitness ==
    /\ pc = "done"
    /\ erro.em = "enviar_email_com_anexo"
    /\ Len(resumo) > 0
    /\ csv_path # NoPath
    /\ email = "none"
    /\ alerta = AlertaIdle
    /\ planilha = PlanilhaIdle

\* C12: once atualizar_planilha_mensal has saved a workbook that holds the
\* row of the reference day, the cell at (day row, column of the member) holds
\* the total of every summary row of a non-ignored member whose column was
\* found, whatever the summary table, two members of one first name included.
LedgerHoldsEveryMatchedTotal ==
    (planilha.salvo /\ planilha.linha_dia # 0) =>
        \A k \in 1..Len(resumo) :
            MatchedCol(k) # 0 =>
                planilha.disco[planilha.linha_dia][MatchedCol(k)]
                    = Str(resumo[k].TotalHoras)

====
